---- MODULE Spec2Model ----
(***************************************************************************)
(* A model of the TF-IDF positional index and query engine:                *)
(*   indexing/cleaner.py, indexing/indexer.py, indexing/storage.py,        *)
(*   searching/phrase_searcher.py, searching/document_filter.py,           *)
(*   searching/query_processor.py, searching/document_ranker.py,           *)
(*   searching/text_extractor.py, searching/search_engine.py.              *)
(*                                                                         *)
(* Numbers.  math.log2 is kept in fixed point, in tenths (Log2Tenths), so  *)
(* tf and idf are integers in tenths and a tfidf weight is an integer in   *)
(* hundredths; the values are exact when the argument is a power of two.   *)
(* math.sqrt is kept as its radicand: a norm is stored as the sum of       *)
(* squares it is the root of (zero exactly when the norm is zero).         *)
(***************************************************************************)
EXTENDS Integers, Sequences, FiniteSets, TLC

VARIABLES
    corpus_exists,      \* os.path.exists(corpus_dir)
    files,              \* the corpus directory: filename -> [kind, words]
    tf_matrix,          \* DocumentIndexer.tf_matrix
    tfidf_matrix,       \* DocumentIndexer.tfidf_matrix
    ix_doc_norms,       \* DocumentIndexer.doc_norms
    total_docs,         \* DocumentIndexer.total_docs
    build,              \* progress and outcome of DocumentIndexer.build_index
    index_file,         \* the persisted JSON index (TFIDF_JSON_PATH)
    index,              \* SearchEngine.index
    meta,               \* SearchEngine.meta
    terms,              \* SearchEngine.terms
    doc_norms,          \* SearchEngine.doc_norms
    helpers,            \* SearchEngine.filter / SearchEngine.ranker are set
    phrase_occurrences, \* SearchEngine.phrase_occurrences
    load_result,        \* outcome of the last load_index call
    threads,            \* the search calls in flight, one record per caller
    call                \* the last call of a pure function and its result

vars == <<corpus_exists, files, tf_matrix, tfidf_matrix, ix_doc_norms, total_docs,
          build, index_file, index, meta, terms, doc_norms, helpers,
          phrase_occurrences, load_result, threads, call>>

-----------------------------------------------------------------------------
(* Bounds of the model *)

MaxDocLen == 4          \* words of a document (phrase specification)
MaxPhraseLen == 3       \* terms of a phrase query
MaxTolerance == 2       \* the largest adjacency tolerance considered (characters)

-----------------------------------------------------------------------------
(* Generic helpers *)

None == <<>>            \* Python None / an absent value

Min(S) == CHOOSE x \in S : \A y \in S : x <= y

RECURSIVE SortedSeq(_)
\* sorted(set(pos)): the ascending list of a finite set of integers
SortedSeq(S) == IF S = {} THEN <<>> ELSE <<Min(S)>> \o SortedSeq(S \ {Min(S)})

SeqsUpTo(S, n) == UNION {[1..k -> S] : k \in 0..n}

Range(s) == {s[i] : i \in DOMAIN s}

-----------------------------------------------------------------------------
(* indexing/cleaner.py: the text normalizer.  A document is a sequence of  *)
(* raw words separated by single spaces; its content is the character      *)
(* sequence TextOf(words).                                                 *)

RawWords == {"the", "The", "cat", "cat.", "cat's", "cats", "sat", "on", "mat", "dog", "rug"}

Chars(w) ==
    CASE w = "the"  -> <<"t", "h", "e">>
      [] w = "The"  -> <<"T", "h", "e">>
      [] w = "cat"  -> <<"c", "a", "t">>
      [] w = "cat." -> <<"c", "a", "t", ".">>
      [] w = "cat's" -> <<"c", "a", "t", "'", "s">>
      [] w = "cats" -> <<"c", "a", "t", "s">>
      [] w = "sat"  -> <<"s", "a", "t">>
      [] w = "on"   -> <<"o", "n">>
      [] w = "mat"  -> <<"m", "a", "t">>
      [] w = "dog"  -> <<"d", "o", "g">>
      [] w = "rug"  -> <<"r", "u", "g">>

RECURSIVE TextOf(_)
TextOf(words) ==
    IF words = <<>> THEN <<>>
    ELSE IF Len(words) = 1 THEN Chars(words[1])
    ELSE Chars(words[1]) \o <<" ">> \o TextOf(Tail(words))

\* str.lower()
LowerChar(c) == IF c = "T" THEN "t" ELSE c
Lower(s) == [i \in DOMAIN s |-> LowerChar(s[i])]

\* the characters clean_text deletes (first re.sub) that occur in RawWords
Punctuation == {".", ",", "'"}

RECURSIVE SplitWords(_, _)
\* str.split() on single spaces, cur being the word under construction
SplitWords(s, cur) ==
    IF s = <<>> THEN (IF cur = <<>> THEN <<>> ELSE <<cur>>)
    ELSE IF Head(s) = " "
         THEN (IF cur = <<>> THEN <<>> ELSE <<cur>>) \o SplitWords(Tail(s), <<>>)
         ELSE SplitWords(Tail(s), Append(cur, Head(s)))

RECURSIVE JoinWords(_)
JoinWords(ws) ==
    IF ws = <<>> THEN <<>>
    ELSE IF Len(ws) = 1 THEN ws[1]
    ELSE ws[1] \o <<" ">> \o JoinWords(Tail(ws))

\* clean_text: delete punctuation, collapse runs of whitespace and strip.
\* The other substitutions act on digits, brackets, slashes and hyphens,
\* none of which occurs in RawWords.
clean_text(text) ==
    JoinWords(SplitWords(SelectSeq(text, LAMBDA c : c \notin Punctuation), <<>>))

\* word_tokenize on cleaned text: the maximal runs of letters
word_tokenize(text) == SplitWords(text, <<>>)

\* stopwords.words(LANGUAGE): the members of NLTK's English list among the
\* cleaned words of RawWords
Stopwords == {"the", "on"}

MIN_WORD_LENGTH == 3

CleanWords == {"the", "cat", "cats", "sat", "on", "mat", "dog", "rug"}

\* the word a token (a character sequence) spells
WordOf(token) == CHOOSE w \in CleanWords : Chars(w) = token

\* SnowballStemmer("english").stem
Stem(w) == IF w = "cats" THEN "cat" ELSE w

\* the terms the normalizer can produce
Terms == {Stem(w) : w \in {x \in CleanWords : x \notin Stopwords /\ Len(x) >= MIN_WORD_LENGTH}}

\* str.find(needle, start): the least 0-based offset >= start, or -1
Find(hay, needle, start) ==
    LET n == Len(needle)
        hits == {i \in start..(Len(hay) - n) :
                    \A k \in 1..n : hay[i + k] = needle[k]}
    IN  IF hits = {} THEN -1 ELSE Min(hits)

RECURSIVE ExtractLoop(_, _, _, _)
\* the token loop of extract_terms_with_positions; acc is
\* [pos |-> current_search_pos, final_terms, found |-> <<term, token_pos>> pairs]
ExtractLoop(text_original, tokens, i, acc) ==
    IF i > Len(tokens) THEN acc
    ELSE
        LET cleaned_token == tokens[i]
            hit == Find(text_original, cleaned_token, acc.pos)
            pos2 == IF hit >= 0 THEN hit + 1 ELSE acc.pos
            w == WordOf(cleaned_token)
            keep == w \notin Stopwords /\ Len(cleaned_token) >= MIN_WORD_LENGTH
        IN  ExtractLoop(text_original, tokens, i + 1,
                [pos |-> pos2,
                 final_terms |-> IF keep THEN Append(acc.final_terms, Stem(w))
                                 ELSE acc.final_terms,
                 found |-> IF keep THEN acc.found \cup {<<Stem(w), hit>>}
                           ELSE acc.found])

extract_terms_with_positions(text_original, text_cleaned) ==
    LET r == ExtractLoop(text_original, word_tokenize(text_cleaned), 1,
                         [pos |-> 0, final_terms |-> <<>>, found |-> {}])
        ts == {p[1] : p \in r.found}
    IN  [final_terms |-> r.final_terms,
         positions |-> [t \in ts |-> SortedSeq({p[2] : p \in {q \in r.found : q[1] = t}})]]

preprocess_text(text) ==
    LET text_original == Lower(text)
    IN  extract_terms_with_positions(text_original, clean_text(text_original))

\* math.log2 of a positive integer, in tenths
Log2Tenths(n) ==
    CASE n = 1 -> 0   [] n = 2 -> 10  [] n = 3 -> 16  [] n = 4 -> 20
      [] n = 5 -> 23  [] n = 6 -> 26  [] n = 7 -> 28  [] n = 8 -> 30
      [] n = 9 -> 32  [] n = 10 -> 33 [] n = 11 -> 35 [] n = 12 -> 36

Count(s, x) == Cardinality({i \in DOMAIN s : s[i] = x})

\* compute_tf: term -> [tf, positions], tf = 1 + log2(frequency) in tenths
compute_tf(text) ==
    LET p == preprocess_text(text)
    IN  [t \in Range(p.final_terms) |->
            [tf |-> 10 + Log2Tenths(Count(p.final_terms, t)),
             positions |-> p.positions[t]]]

-----------------------------------------------------------------------------
(* searching/phrase_searcher.py *)

Inf == 1000000          \* float('inf')

\* the first weight entry of the term for the document, or no position
positions_for_term_in_doc(terms_dict, term, doc_id) ==
    IF term \notin DOMAIN terms_dict THEN <<>>
    ELSE LET ws == terms_dict[term].weights
             hit == {i \in DOMAIN ws : ws[i].doc = doc_id}
         IN  IF hit = {} THEN <<>> ELSE ws[Min(hit)].positions

\* next_pos looking for a position after v, not at v
next_pos_after(pos_list, v) ==
    LET hit == {i \in DOMAIN pos_list : pos_list[i] > v}
    IN  IF hit = {} THEN Inf ELSE pos_list[Min(hit)]

next_pos(pos_list, v) ==
    LET hit == {i \in DOMAIN pos_list : pos_list[i] >= v}
    IN  IF hit = {} THEN Inf ELSE pos_list[Min(hit)]

RECURSIVE PrevLoop(_, _, _, _)
\* the loop of prev_pos: keeps the last p <= u met before the first p > u
PrevLoop(pos_list, u, i, prev) ==
    IF i > Len(pos_list) THEN prev
    ELSE IF pos_list[i] <= u THEN PrevLoop(pos_list, u, i + 1, pos_list[i])
    ELSE prev

prev_pos(pos_list, u) == PrevLoop(pos_list, u, 1, Inf)

RECURSIVE ForwardPass(_, _, _, _, _, _)
\* the forward loop of next_phrase from term i with cursor v; None when a
\* term has no position at or after the cursor
ForwardPass(terms_dict, query_terms, doc_id, i, v, found_positions) ==
    IF i > Len(query_terms) THEN found_positions
    ELSE LET p == next_pos(positions_for_term_in_doc(terms_dict, query_terms[i], doc_id), v)
         IN  IF p = Inf THEN None
             ELSE ForwardPass(terms_dict, query_terms, doc_id, i + 1, p + 1,
                              Append(found_positions, p))

\* the backward loop of next_phrase: every term, last to first, is found by
\* prev_pos at the position the forward pass chose
BackwardValid(terms_dict, query_terms, doc_id, found_positions) ==
    LET n == Len(query_terms)
    IN  \A i \in 1..n :
            prev_pos(positions_for_term_in_doc(terms_dict, query_terms[i], doc_id),
                     IF i = n THEN found_positions[n] ELSE found_positions[i + 1] - 1)
              = found_positions[i]

RECURSIVE NextPhraseRunSlow(_, _, _, _, _)
\* next_phrase retrying from start_v + 1 instead of u + 1
NextPhraseRunSlow(terms_dict, query_terms, doc_id, start_v, calls) ==
    IF query_terms = <<>> THEN [res |-> None, calls |-> calls + 1]
    ELSE LET fp == ForwardPass(terms_dict, query_terms, doc_id, 1, start_v, <<>>)
         IN  IF fp = None THEN [res |-> None, calls |-> calls + 1]
             ELSE IF BackwardValid(terms_dict, query_terms, doc_id, fp)
                  THEN [res |-> <<fp[1], fp[Len(fp)]>>, calls |-> calls + 1]
                  ELSE NextPhraseRunSlow(terms_dict, query_terms, doc_id, start_v + 1,
                                         calls + 1)

RECURSIVE NextPhraseRun(_, _, _, _, _)
\* next_phrase with the number of its invocations (the call and its retries):
\* [res |-> None or <<u, v>>, calls |-> n]
NextPhraseRun(terms_dict, query_terms, doc_id, start_v, calls) ==
    IF query_terms = <<>> THEN [res |-> None, calls |-> calls + 1]
    ELSE LET fp == ForwardPass(terms_dict, query_terms, doc_id, 1, start_v, <<>>)
         IN  IF fp = None THEN [res |-> None, calls |-> calls + 1]
             ELSE IF BackwardValid(terms_dict, query_terms, doc_id, fp)
                  THEN [res |-> <<fp[1], fp[Len(fp)]>>, calls |-> calls + 1]
                  ELSE NextPhraseRun(terms_dict, query_terms, doc_id, fp[1] + 1, calls + 1)

next_phrase(terms_dict, query_terms, doc_id, start_v) ==
    NextPhraseRun(terms_dict, query_terms, doc_id, start_v, 0).res

\* all_phrase_occurrences leaving its loop after the first occurrence
AllOccurrencesRunFirstOnly(terms_dict, query_terms, doc_id, u, acc) ==
    LET r == NextPhraseRun(terms_dict, query_terms, doc_id, u, 0)
        acc2 == [acc EXCEPT !.iterations = @ + 1, !.calls = @ + r.calls]
    IN  IF r.res = None THEN acc2
        ELSE [acc2 EXCEPT !.occurrences = Append(@, r.res)]

RECURSIVE AllOccurrencesRun(_, _, _, _, _)
\* the while loop of all_phrase_occurrences from offset u; acc is
\* [occurrences, iterations of the loop, invocations of next_phrase]
AllOccurrencesRun(terms_dict, query_terms, doc_id, u, acc) ==
    LET r == NextPhraseRun(terms_dict, query_terms, doc_id, u, 0)
        acc2 == [acc EXCEPT !.iterations = @ + 1, !.calls = @ + r.calls]
    IN  IF r.res = None THEN acc2
        ELSE AllOccurrencesRun(terms_dict, query_terms, doc_id, r.res[2] + 1,
                               [acc2 EXCEPT !.occurrences = Append(@, r.res)])

all_phrase_occurrences(terms_dict, query_terms, doc_id) ==
    AllOccurrencesRun(terms_dict, query_terms, doc_id, 0,
                      [occurrences |-> <<>>, iterations |-> 0, calls |-> 0]).occurrences

\* filter_docs_by_phrase scanning the documents for a one-term phrase too
filter_docs_by_phrase_scan_single(terms_dict, query_terms, candidate_docs) ==
    IF Len(query_terms) < 1
    THEN [docs |-> candidate_docs, occurrences_map |-> <<>>]
    ELSE LET filtered == {d \in candidate_docs :
                            all_phrase_occurrences(terms_dict, query_terms, d) # <<>>}
         IN  [docs |-> filtered,
              occurrences_map |->
                  [d \in filtered |-> all_phrase_occurrences(terms_dict, query_terms, d)]]

filter_docs_by_phrase(terms_dict, query_terms, candidate_docs) ==
    IF Len(query_terms) <= 1
    THEN [docs |-> candidate_docs, occurrences_map |-> <<>>]
    ELSE LET filtered == {d \in candidate_docs :
                            all_phrase_occurrences(terms_dict, query_terms, d) # <<>>}
         IN  [docs |-> filtered,
              occurrences_map |->
                  [d \in filtered |-> all_phrase_occurrences(terms_dict, query_terms, d)]]

-----------------------------------------------------------------------------
(* indexing/indexer.py: DocumentIndexer.  Document ids are the filenames,  *)
(* numbered in their sort order.                                           *)

RECURSIVE SumOver(_, _)
\* the sum of f[x] over the finite set S
SumOver(S, f) ==
    IF S = {} THEN 0
    ELSE LET x == CHOOSE y \in S : TRUE IN f[x] + SumOver(S \ {x}, f)

\* process_single_document: one posting appended per term of the document
process_single_document(tfm, filename, content) ==
    LET tf_data == compute_tf(content)
    IN  [t \in DOMAIN tfm \cup DOMAIN tf_data |->
            LET old == IF t \in DOMAIN tfm THEN tfm[t] ELSE <<>>
            IN  IF t \in DOMAIN tf_data
                THEN Append(old, [doc |-> filename, tf |-> tf_data[t].tf,
                                  positions |-> tf_data[t].positions])
                ELSE old]

\* math.log2(total_docs / len(tf_list)) raises ValueError at 0
IdfFails(tfm, total) == total = 0 /\ DOMAIN tfm # {}

Idf(tfm, total, t) == Log2Tenths(total) - Log2Tenths(Len(tfm[t]))

\* compute_tfidf: [tfidf_matrix, doc_norms] from tf_matrix and total_docs,
\* on top of the entries the two dictionaries already hold; an entry of
\* tfidf_matrix is the two-element list [idf, weight_values]
compute_tfidf(tfm, total, old_matrix, old_norms) ==
    LET weight(t, i) == tfm[t][i].tf * Idf(tfm, total, t)
        entries == UNION {{<<t, i>> : i \in DOMAIN tfm[t]} : t \in DOMAIN tfm}
        docs == {tfm[e[1]][e[2]].doc : e \in entries}
        sq == [e \in entries |-> weight(e[1], e[2]) * weight(e[1], e[2])]
    IN  [tfidf_matrix |->
            [t \in DOMAIN old_matrix \cup DOMAIN tfm |->
                IF t \in DOMAIN tfm
                THEN <<Idf(tfm, total, t),
                       [i \in DOMAIN tfm[t] |->
                           [doc |-> tfm[t][i].doc,
                            tfidf |-> weight(t, i),
                            positions |-> tfm[t][i].positions]]>>
                ELSE old_matrix[t]],
         doc_norms |->
            [d \in DOMAIN old_norms \cup docs |->
                IF d \in docs
                THEN SumOver({e \in entries : tfm[e[1]][e[2]].doc = d}, sq)
                ELSE old_norms[d]]]

\* to_serializable keeping only the first posting of every term
to_serializable_first_posting(matrix, norms, total) ==
    [meta |-> [total_docs |-> total, total_terms |-> Cardinality(DOMAIN matrix)],
     terms |-> [t \in DOMAIN matrix |->
                  [idf |-> matrix[t][1], weights |-> SubSeq(matrix[t][2], 1, 1)]],
     doc_norms |-> norms]

\* to_serializable: the three sections of the persisted index, each entry
\* [idf, weights] of the matrix unpacked into an object
to_serializable(matrix, norms, total) ==
    [meta |-> [total_docs |-> total, total_terms |-> Cardinality(DOMAIN matrix)],
     terms |-> [t \in DOMAIN matrix |->
                  [idf |-> matrix[t][1],
                   weights |-> [i \in DOMAIN matrix[t][2] |->
                                   [doc |-> matrix[t][2][i].doc,
                                    tfidf |-> matrix[t][2][i].tfidf,
                                    positions |-> matrix[t][2][i].positions]]]],
     doc_norms |-> norms]

\* ord() of the characters of the terms
Ord(c) ==
    CASE c = "a" -> 97  [] c = "c" -> 99  [] c = "d" -> 100 [] c = "g" -> 103
      [] c = "m" -> 109 [] c = "o" -> 111 [] c = "r" -> 114 [] c = "s" -> 115
      [] c = "t" -> 116 [] c = "u" -> 117

RECURSIVE SeqLess(_, _)
\* the order of Python strings: lexicographic by code point
SeqLess(a, b) ==
    IF b = <<>> THEN FALSE
    ELSE IF a = <<>> THEN TRUE
    ELSE IF Head(a) # Head(b) THEN Ord(Head(a)) < Ord(Head(b))
    ELSE SeqLess(Tail(a), Tail(b))

StrLess(x, y) == SeqLess(Chars(x), Chars(y))

RECURSIVE SortedKeys(_)
\* sorted(self.tfidf_matrix.keys()): the order in which to_serializable
\* inserts the terms, which json.dump writes and json.load keeps
SortedKeys(S) ==
    IF S = {} THEN <<>>
    ELSE LET least == CHOOSE x \in S : \A y \in S \ {x} : StrLess(x, y)
         IN  <<least>> \o SortedKeys(S \ {least})

RECURSIVE ScanCorpus(_, _, _)
\* the file loop of build_index over os.listdir in the given order; acc is
\* [tf_matrix, index |-> files processed, error |-> the exception that ended it]
ScanCorpus(fs, listing, acc) ==
    IF listing = <<>> THEN acc
    ELSE LET filename == Head(listing)
         IN  IF fs[filename].kind = "dir" THEN ScanCorpus(fs, Tail(listing), acc)
             ELSE IF fs[filename].kind # "file" THEN [acc EXCEPT !.error = "OSError"]  \* open / read raises
             ELSE ScanCorpus(fs, Tail(listing),
                      [acc EXCEPT !.tf_matrix = process_single_document(@, filename,
                                                    TextOf(fs[filename].words)),
                                  !.index = @ + 1])

\* a corpus directory of readable files with the given words
ReadableFiles(contents) == [d \in DOMAIN contents |-> [kind |-> "file", words |-> contents[d]]]

\* save_json: the payload of the matrix and norms compute_tfidf produced
Payload(r, total) == to_serializable(r.tfidf_matrix, r.doc_norms, total)

\* compute_tfidf and to_serializable on a fresh indexer after the file loop
IndexOfScan(scan) ==
    Payload(compute_tfidf(scan.tf_matrix, scan.index, <<>>, <<>>), scan.index)

\* the index a fresh DocumentIndexer builds and serializes from a corpus of
\* readable files listed in the given order
BuiltIndex(listing, contents) ==
    IndexOfScan(ScanCorpus(ReadableFiles(contents), listing,
                           [tf_matrix |-> <<>>, index |-> 0, error |-> "none"]))

-----------------------------------------------------------------------------
(* Specification SpecPhrase: next_phrase and all_phrase_occurrences applied *)
(* to the index of a one-document corpus.                                   *)

PhraseWords == {"cat", "sat", "the"}
PhraseTerms == {"cat", "sat"}
PhraseDoc == 1

NoCall == [fn |-> "none"]

\* the values of SearchEngine.index: None, or what json.load returned
NoIndex == [type |-> "NoneType"]
DictIndex(sections) == [type |-> "dict", value |-> sections]
ListIndex(items) == [type |-> "list", value |-> items]

\* the persisted index holding a JSON object with the given sections
ObjectFile(sections) == [kind |-> "object", sections |-> sections]

\* SearchEngine.phrase_occurrences: the attribute exists once a multi-term
\* PHRASE search has assigned it
NoPhraseOccurrences == [set |-> FALSE, map |-> <<>>]

\* SearchEngine.__init__
IdleEngine ==
    /\ index = NoIndex /\ meta = <<>> /\ terms = <<>> /\ doc_norms = <<>>
    /\ helpers = FALSE /\ phrase_occurrences = NoPhraseOccurrences
    /\ load_result = "none"

\* DocumentIndexer.__init__
IdleIndexer ==
    /\ tf_matrix = <<>> /\ tfidf_matrix = <<>> /\ ix_doc_norms = <<>>
    /\ total_docs = 0 /\ build = [status |-> "idle", error |-> "none", builds |-> 0]

\* dict.get(key, {})
Get(obj, key) == IF key \in DOMAIN obj THEN obj[key] ELSE <<>>

\* the engine after load_index has read the persisted object
LoadedEngine(sections) ==
    /\ index = DictIndex(sections)
    /\ meta = Get(sections, "meta")
    /\ terms = Get(sections, "terms")
    /\ doc_norms = Get(sections, "doc_norms")
    /\ helpers = TRUE /\ phrase_occurrences = NoPhraseOccurrences /\ load_result = "ok"

InitPhrase ==
    /\ corpus_exists = TRUE
    /\ \E ws \in SeqsUpTo(PhraseWords, MaxDocLen) :
          /\ files = ReadableFiles((PhraseDoc :> ws))
          /\ index_file = ObjectFile(BuiltIndex(<<PhraseDoc>>, (PhraseDoc :> ws)))
    /\ LoadedEngine(index_file.sections)
    /\ threads = <<>>
    /\ IdleIndexer
    /\ call = NoCall

unchanged_but_call ==
    UNCHANGED <<corpus_exists, files, tf_matrix, tfidf_matrix, ix_doc_norms, total_docs,
                build, index_file, index, meta, terms, doc_norms, helpers,
                phrase_occurrences, load_result, threads>>

CallNextPhrase(q, s) ==
    /\ call = NoCall
    /\ call' = [fn |-> "next_phrase", query_terms |-> q, doc |-> PhraseDoc, start_v |-> s,
                run |-> NextPhraseRun(terms, q, PhraseDoc, s, 0)]
    /\ unchanged_but_call

CallAllPhraseOccurrences(q) ==
    /\ call = NoCall
    /\ call' = [fn |-> "all_phrase_occurrences", query_terms |-> q, doc |-> PhraseDoc,
                run |-> AllOccurrencesRun(terms, q, PhraseDoc, 0,
                            [occurrences |-> <<>>, iterations |-> 0, calls |-> 0])]
    /\ unchanged_but_call

CallFilterDocsByPhrase(q, candidate_docs) ==
    /\ call = NoCall
    /\ call' = [fn |-> "filter_docs_by_phrase", query_terms |-> q,
                candidate_docs |-> candidate_docs,
                res |-> filter_docs_by_phrase(terms, q, candidate_docs)]
    /\ unchanged_but_call

\* the caller takes the result; another call may follow
Return ==
    /\ call # NoCall
    /\ call' = NoCall
    /\ unchanged_but_call

\* the character offsets a document of MaxDocLen words can reach
StartOffsets == 0..(4 * MaxDocLen)

NextPhraseSpec ==
    \/ \E q \in SeqsUpTo(PhraseTerms, MaxPhraseLen), s \in StartOffsets : CallNextPhrase(q, s)
    \/ \E q \in SeqsUpTo(PhraseTerms, MaxPhraseLen) : CallAllPhraseOccurrences(q)
    \/ \E q \in SeqsUpTo(PhraseTerms, MaxPhraseLen), c \in SUBSET DOMAIN files :
          CallFilterDocsByPhrase(q, c)
    \/ Return

SpecPhrase == InitPhrase /\ [][NextPhraseSpec]_vars

-----------------------------------------------------------------------------
(* Properties of the phrase matcher *)

PositionsOf(terms_dict, t, d) == Range(positions_for_term_in_doc(terms_dict, t, d))

\* the increasing choices of one position per phrase term, in phrase order
Chains(terms_dict, q, d) ==
    {c \in [1..Len(q) -> UNION {PositionsOf(terms_dict, q[i], d) : i \in 1..Len(q)}] :
        /\ \A i \in 1..Len(q) : c[i] \in PositionsOf(terms_dict, q[i], d)
        /\ \A i \in 1..(Len(q) - 1) : c[i] < c[i + 1]}

\* the phrase occurs along c: between two consecutive chosen positions neither
\* of the two terms has another position
Occurrence(terms_dict, q, d, c) ==
    \A i \in 1..(Len(q) - 1) :
        \A p \in PositionsOf(terms_dict, q[i], d) \cup PositionsOf(terms_dict, q[i + 1], d) :
            ~(c[i] < p /\ p < c[i + 1])

OccurrenceStarts(terms_dict, q, d) ==
    {c[1] : c \in {x \in Chains(terms_dict, q, d) : Occurrence(terms_dict, q, d, x)}}

\* the chain is contiguous text: each gap between the end of a term and the
\* start of the next one is within the tolerance
Contiguous(q, c, tolerance) ==
    \A i \in 1..(Len(q) - 1) : c[i + 1] - (c[i] + Len(q[i])) <= tolerance

\* C1: a document retained by filter_docs_by_phrase for a multi-term phrase
\* holds the phrase terms in order with every gap within the tolerance; a
\* document where they occur only with larger gaps is never retained.
C1_RetainedOnlyIfContiguous ==
    (call.fn = "filter_docs_by_phrase" /\ Len(call.query_terms) > 1) =>
        \A d \in call.res.docs :
            \E c \in Chains(terms, call.query_terms, d) :
                Contiguous(call.query_terms, c, MaxTolerance)

RarestCount(terms_dict, q, d) ==
    Min({Len(positions_for_term_in_doc(terms_dict, q[i], d)) : i \in 1..Len(q)})

\* C8 as claimed: the invocations of next_phrase made by the enumeration
\* (loop iterations and retries), the closing one that finds nothing left
\* aside, number at most k, the position count of the rarest term.
C8_AtMostRarestIterations ==
    (call.fn = "all_phrase_occurrences" /\ call.query_terms # <<>>) =>
        call.run.calls - 1 <= RarestCount(terms, call.query_terms, call.doc)

\* C8 amended: the enumeration makes at most k1 + 1 invocations of
\* next_phrase, k1 the position count of the first term of the phrase, and
\* returns at most k spans, k the position count of the rarest term.
C8_AtMostFirstTermIterations ==
    (call.fn = "all_phrase_occurrences" /\ call.query_terms # <<>>) =>
        /\ call.run.calls
             <= Len(positions_for_term_in_doc(terms, call.query_terms[1], call.doc)) + 1
        /\ call.run.iterations <= call.run.calls
        /\ Len(call.run.occurrences) <= RarestCount(terms, call.query_terms, call.doc)

\* an enumeration with retries that uses the whole budget of k1 + 1
C8_Witness ==
    /\ call.fn = "all_phrase_occurrences"
    /\ Len(call.query_terms) > 1
    /\ call.run.calls > call.run.iterations
    /\ call.run.calls
         = Len(positions_for_term_in_doc(terms, call.query_terms[1], call.doc)) + 1
    /\ call.run.calls - 1 > RarestCount(terms, call.query_terms, call.doc)

-----------------------------------------------------------------------------
(* searching/document_filter.py: DocumentFilter over the index terms *)

\* get_documents_for_terms looking at the first term of the list only
get_documents_for_first_term(index_terms, term_list) ==
    IF term_list = <<>> \/ term_list[1] \notin DOMAIN index_terms THEN {}
    ELSE {index_terms[term_list[1]].weights[k].doc :
             k \in DOMAIN index_terms[term_list[1]].weights}

get_documents_for_terms(index_terms, term_list) ==
    UNION {{index_terms[term_list[i]].weights[k].doc :
                k \in DOMAIN index_terms[term_list[i]].weights} :
              i \in {j \in DOMAIN term_list : term_list[j] \in DOMAIN index_terms}}

RECURSIVE FilterAndLoopSkipAbsent(_, _, _)
\* the loop of filter_and passing over the terms the index does not hold
FilterAndLoopSkipAbsent(index_terms, rest, result_docs) ==
    IF rest = <<>> THEN result_docs
    ELSE FilterAndLoopSkipAbsent(index_terms, Tail(rest),
             IF Head(rest) \in DOMAIN index_terms
             THEN result_docs \cap get_documents_for_terms(index_terms, <<Head(rest)>>)
             ELSE result_docs)

RECURSIVE FilterAndLoop(_, _, _)
\* the loop of filter_and over terms[1:]
FilterAndLoop(index_terms, rest, result_docs) ==
    IF rest = <<>> THEN result_docs
    ELSE IF Head(rest) \in DOMAIN index_terms
         THEN FilterAndLoop(index_terms, Tail(rest),
                  result_docs \cap get_documents_for_terms(index_terms, <<Head(rest)>>))
         ELSE {}

\* filter_and stopping at the first term of the list
filter_and_first_term(index_terms, term_list) ==
    IF term_list = <<>> THEN {}
    ELSE get_documents_for_terms(index_terms, <<term_list[1]>>)

filter_and(index_terms, term_list) ==
    IF term_list = <<>> THEN {}
    ELSE IF term_list[1] \notin DOMAIN index_terms THEN {}
    ELSE FilterAndLoop(index_terms, Tail(term_list),
                       get_documents_for_terms(index_terms, <<term_list[1]>>))

filter_or(index_terms, term_list) == get_documents_for_terms(index_terms, term_list)

\* filter_documents taking every operator it does not know for AND
filter_documents_default_and(index_terms, term_list, operator) ==
    IF operator \in {"OR", "PHRASE"} THEN filter_or(index_terms, term_list)
    ELSE filter_and(index_terms, term_list)

filter_documents(index_terms, term_list, operator) ==
    IF operator = "AND" THEN filter_and(index_terms, term_list)
    ELSE filter_or(index_terms, term_list)

-----------------------------------------------------------------------------
(* searching/query_processor.py and searching/document_ranker.py.          *)
(* A score numerator / (doc_norm * query_norm) is kept exactly, as the     *)
(* pair [num, den2] with den2 the product of the two squared norms.        *)

\* compute_query_norm: the sum of idf^2 over the distinct query terms of the
\* index (the radicand of the norm)
compute_query_norm(query_terms, index_terms) ==
    LET present == Range(query_terms) \cap DOMAIN index_terms
        sq == [t \in present |-> index_terms[t].idf * index_terms[t].idf]
    IN  SumOver(present, sq)

\* the methods class DocumentRanker defines besides __init__
RankerMethods == {"rank_documents"}

\* the orders in which a for loop can iterate over the set
IterationOrders(S) ==
    {o \in [1..Cardinality(S) -> S] : \A i, j \in 1..Cardinality(S) : o[i] = o[j] => i = j}

RECURSIVE AddPostingsAllDocs(_, _, _, _)
\* the inner loop of rank_documents without the test on candidate_docs
AddPostingsAllDocs(weights, idf, candidate_docs, doc_numerators) ==
    IF weights = <<>> THEN doc_numerators
    ELSE LET w == Head(weights)
             hit == {i \in DOMAIN doc_numerators : doc_numerators[i].doc = w.doc}
             contribution == idf * w.tfidf
         IN  AddPostingsAllDocs(Tail(weights), idf, candidate_docs,
                 IF hit = {}
                 THEN Append(doc_numerators, [doc |-> w.doc, numerator |-> contribution])
                 ELSE [doc_numerators EXCEPT ![Min(hit)].numerator = @ + contribution])

RECURSIVE AddPostings(_, _, _, _)
\* the inner loop of rank_documents over the postings of one term;
\* doc_numerators is the dictionary in insertion order
AddPostings(weights, idf, candidate_docs, doc_numerators) ==
    IF weights = <<>> THEN doc_numerators
    ELSE LET w == Head(weights)
             hit == {i \in DOMAIN doc_numerators : doc_numerators[i].doc = w.doc}
             contribution == idf * w.tfidf
         IN  AddPostings(Tail(weights), idf, candidate_docs,
                 IF w.doc \notin candidate_docs THEN doc_numerators
                 ELSE IF hit = {}
                      THEN Append(doc_numerators,
                                  [doc |-> w.doc, numerator |-> contribution])
                      ELSE [doc_numerators EXCEPT ![Min(hit)].numerator = @ + contribution])

RECURSIVE AccumulateTerms(_, _, _, _)
\* the outer loop of rank_documents over unique_query_terms, iterated in
\* the given order
AccumulateTerms(index_terms, order, candidate_docs, doc_numerators) ==
    IF order = <<>> THEN doc_numerators
    ELSE AccumulateTerms(index_terms, Tail(order), candidate_docs,
             IF Head(order) \notin DOMAIN index_terms THEN doc_numerators
             ELSE AddPostings(index_terms[Head(order)].weights, index_terms[Head(order)].idf,
                              candidate_docs, doc_numerators))

RECURSIVE FracLess(_, _, _, _)
\* a / b < c / d for a, c >= 0 and b, d > 0, by continued fractions
FracLess(a, b, c, d) ==
    IF (a \div b) # (c \div d) THEN (a \div b) < (c \div d)
    ELSE IF c % d = 0 THEN FALSE
    ELSE IF a % b = 0 THEN TRUE
    ELSE FracLess(d, c % d, b, a % b)

\* s1 < s2 for two scores with non-negative numerators
ScoreLess(s1, s2) == FracLess(s1.num * s1.num, s1.den2, s2.num * s2.num, s2.den2)

RECURSIVE InsertDesc(_, _)
\* x placed after every element whose score is not less than its own
InsertDesc(sorted, x) ==
    IF sorted = <<>> THEN <<x>>
    ELSE IF ScoreLess(Head(sorted).score, x.score) THEN <<x>> \o sorted
    ELSE <<Head(sorted)>> \o InsertDesc(Tail(sorted), x)

RECURSIVE SortByScoreDesc(_, _)
\* list.sort(key=score, reverse=True): descending and stable
SortByScoreDesc(doc_scores, acc) ==
    IF doc_scores = <<>> THEN acc
    ELSE SortByScoreDesc(Tail(doc_scores), InsertDesc(acc, Head(doc_scores)))

\* rank_documents, order being the iteration order of set(query_terms);
\* candidate_docs is always given by search
rank_documents(index_terms, norms, order, query_norm, candidate_docs) ==
    IF query_norm = 0 THEN <<>>
    ELSE LET doc_numerators == AccumulateTerms(index_terms, order, candidate_docs, <<>>)
             doc_norm(d) == IF d \in DOMAIN norms THEN norms[d] ELSE 0
             kept == SelectSeq(doc_numerators, LAMBDA e : doc_norm(e.doc) # 0)
         IN  SortByScoreDesc(
                 [i \in DOMAIN kept |->
                     [doc |-> kept[i].doc,
                      score |-> [num |-> kept[i].numerator,
                                 den2 |-> doc_norm(kept[i].doc) * query_norm]]],
                 <<>>)

-----------------------------------------------------------------------------
(* searching/text_extractor.py and SearchEngine.get_positions *)

Returned(results) == [kind |-> "list", results |-> results]
Raised(error) == [kind |-> "error", error |-> error]

\* get_full_document_text / extract_text_by_position: the read of a corpus
\* file, the lowered text or the exception raised
ReadDocument(fs, doc_id) ==
    IF doc_id \notin DOMAIN fs \/ fs[doc_id].kind = "missing"
    THEN Raised("FileNotFoundError")
    ELSE IF fs[doc_id].kind # "file" THEN Raised("IOError")
    ELSE [kind |-> "text", text |-> Lower(TextOf(fs[doc_id].words))]

\* extract_snippet.  The fragment cut around the position and highlighted is
\* kept as the values that determine it; term_words are the words of the
\* searched term or phrase, position -1 being resolved by text.find
extract_snippet(fs, doc_id, position, term_words, searched_term, operator) ==
    LET r == ReadDocument(fs, doc_id)
        at == IF position # -1 THEN position ELSE Find(r.text, TextOf(term_words), 0)
    IN  IF r.kind = "error" THEN r
        ELSE [kind |-> "snippet", doc |-> doc_id, position |-> at,
              searched_term |-> searched_term, operator |-> operator]

is_document_matching(index_terms, doc_id, term) ==
    LET ws == IF term \in DOMAIN index_terms THEN index_terms[term].weights ELSE <<>>
        hit == {i \in DOMAIN ws : ws[i].doc = doc_id}
    IN  IF hit = {} THEN [is_found |-> FALSE, positions |-> <<>>]
        ELSE [is_found |-> TRUE, positions |-> ws[Min(hit)].positions]

RECURSIVE TermSnippets(_, _, _, _, _, _, _, _)
\* the AND/OR loop of get_positions from term i on
TermSnippets(fs, index_terms, doc_id, query_terms, original_query, operator, i, snippets) ==
    IF i > Len(query_terms) THEN [kind |-> "list", snippets |-> snippets]
    ELSE LET m == is_document_matching(index_terms, doc_id, query_terms[i])
             sn == extract_snippet(fs, doc_id, m.positions[1], <<query_terms[i]>>,
                                   <<original_query[i]>>, operator)
         IN  IF ~m.is_found
             THEN TermSnippets(fs, index_terms, doc_id, query_terms, original_query,
                               operator, i + 1, snippets)
             ELSE IF m.positions = <<>> \/ i > Len(original_query)
                  THEN Raised("IndexError")
             ELSE IF sn.kind = "error" THEN sn
             ELSE TermSnippets(fs, index_terms, doc_id, query_terms, original_query,
                               operator, i + 1, Append(snippets, sn))

get_positions(fs, index_terms, doc_id, query_terms, original_query, operator) ==
    IF operator = "PHRASE" /\ Len(query_terms) > 1
    THEN LET m == is_document_matching(index_terms, doc_id, query_terms[1])
             sn == extract_snippet(fs, doc_id, m.positions[1], query_terms,
                                   original_query, operator)
         IN  IF ~m.is_found THEN [kind |-> "list", snippets |-> <<>>]
             ELSE IF m.positions = <<>> THEN Raised("IndexError")
             ELSE IF sn.kind = "error" THEN sn
             ELSE [kind |-> "list", snippets |-> <<sn>>]
    ELSE TermSnippets(fs, index_terms, doc_id, query_terms, original_query, operator,
                      1, <<>>)

-----------------------------------------------------------------------------
(* searching/search_engine.py: SearchEngine.search, in the three steps a   *)
(* caller goes through: the index check and the preprocessing, the boolean *)
(* and phrase filters, the ranking with the snippets.  A query is the      *)
(* sequence of its raw words.                                              *)

MAX_RESULTS == 2

\* bool(self.index)
Truthy(ix) ==
    \/ ix.type = "dict" /\ DOMAIN ix.value # {}
    \/ ix.type = "list" /\ ix.value # <<>>

preprocess_query(query) == preprocess_text(TextOf(query)).final_terms

\* query.split()
SplitQuery(query) == SplitWords(TextOf(query), <<>>)

IdleThread == [pc |-> "idle"]

\* lines 146-159
BeginStep(ix, query, operator) ==
    LET th == [pc |-> "filter", query |-> query, operator |-> operator,
               all_query_terms |-> <<>>, candidate_docs |-> {}, order |-> <<>>,
               outcome |-> [kind |-> "none"]]
        all_query_terms == preprocess_query(query)
    IN  IF ~Truthy(ix)
        THEN [th EXCEPT !.pc = "done", !.outcome = Raised("RuntimeError")]
        ELSE IF all_query_terms = <<>>
             THEN [th EXCEPT !.pc = "done", !.outcome = Returned(<<>>)]
             ELSE [th EXCEPT !.all_query_terms = all_query_terms]

\* lines 163-169: [thread, phrase_occurrences] after the filters; self.filter
\* is None until load_index has created it
FilterStep(th, index_terms, has_helpers, occurrences) ==
    LET candidate_docs == filter_documents(index_terms, th.all_query_terms, th.operator)
        r == filter_docs_by_phrase(index_terms, th.all_query_terms, candidate_docs)
    IN  IF ~has_helpers
        THEN [thread |-> [th EXCEPT !.pc = "done", !.outcome = Raised("AttributeError")],
              phrase_occurrences |-> occurrences]
        ELSE IF th.operator = "PHRASE" /\ Len(th.all_query_terms) > 1
             THEN [thread |-> [th EXCEPT !.pc = "rank", !.candidate_docs = r.docs],
                   phrase_occurrences |-> [set |-> TRUE, map |-> r.occurrences_map]]
             ELSE [thread |-> [th EXCEPT !.pc = "rank", !.candidate_docs = candidate_docs],
                   phrase_occurrences |-> occurrences]

\* the candidate set read from the attribute the phrase filter writes
CandidateDocsShared(th, occurrences) ==
    IF occurrences.set THEN DOMAIN occurrences.map ELSE th.candidate_docs

\* the candidate set the ranking step reads: the local variable of the call
CandidateDocsSeen(th, occurrences) == th.candidate_docs

RECURSIVE AttachSnippets(_, _, _, _, _, _, _)
\* lines 189-190: the snippets of each retained result, in order
AttachSnippets(fs, index_terms, top_docs, query_terms, original_query, operator, acc) ==
    IF top_docs = <<>> THEN Returned(acc)
    ELSE LET g == get_positions(fs, index_terms, Head(top_docs).doc, query_terms,
                                original_query, operator)
         IN  IF g.kind = "error" THEN g
             ELSE AttachSnippets(fs, index_terms, Tail(top_docs), query_terms,
                                 original_query, operator,
                                 Append(acc, [doc |-> Head(top_docs).doc,
                                              score |-> Head(top_docs).score,
                                              snippets |-> g.snippets]))

\* lines 171-192, order being the iteration order of the query-term set
RankStep(th, index_terms, norms, fs, occurrences, order) ==
    LET candidate_docs == CandidateDocsSeen(th, occurrences)
        query_norm == compute_query_norm(th.all_query_terms, index_terms)
        ranked_docs == rank_documents(index_terms, norms, order, query_norm, candidate_docs)
        top_docs == SubSeq(ranked_docs, 1, Min({MAX_RESULTS, Len(ranked_docs)}))
    IN  IF candidate_docs = {}
        THEN [th EXCEPT !.pc = "done", !.outcome = Returned(<<>>)]
        ELSE IF "compute_query_norm" \notin RankerMethods
             THEN [th EXCEPT !.pc = "done", !.outcome = Raised("AttributeError")]
        ELSE IF ranked_docs = <<>>
             THEN [th EXCEPT !.pc = "done", !.order = order, !.outcome = Returned(<<>>)]
        ELSE [th EXCEPT !.pc = "done", !.order = order,
                        !.outcome = AttachSnippets(fs, index_terms, top_docs,
                                        th.all_query_terms, SplitQuery(th.query),
                                        th.operator, <<>>)]

\* the outcome of search(query, operator) run alone on the engine
SearchAlone(query, operator, order) ==
    LET b == BeginStep(index, query, operator)
        f == FilterStep(b, terms, helpers, phrase_occurrences)
    IN  IF b.pc = "done" THEN b.outcome
        ELSE IF f.thread.pc = "done" THEN f.thread.outcome
        ELSE RankStep(f.thread, terms, doc_norms, files, f.phrase_occurrences, order).outcome

-----------------------------------------------------------------------------
(* Specification Spec: one SearchEngine over the persisted index of the    *)
(* two-document example corpus, loaded and then queried by the callers.    *)

MaxQueryLen == 2        \* raw words of a query

Callers == {"a", "b"}
QueryWords == {"cat", "sat", "on"}
Operators == {"AND", "OR", "PHRASE", "NEAR"}

ExampleCorpus ==
    (1 :> <<"the", "cat", "sat", "on", "the", "mat">>)
      @@ (2 :> <<"the", "dog", "sat", "on", "the", "rug">>)

ExampleIndex == BuiltIndex(<<1, 2>>, ExampleCorpus)

SectionNames == {"meta", "terms", "doc_norms"}

\* what can stand at index_path: nothing, text that is not JSON, a JSON
\* array, or a JSON object with some of the sections of the example index
IndexFiles ==
    {[kind |-> "missing"], [kind |-> "malformed"], [kind |-> "array", items |-> <<"terms">>]}
      \cup {ObjectFile([s \in S |-> ExampleIndex[s]]) : S \in SUBSET SectionNames}

\* a fresh engine over the index the indexer persisted for the corpus
Init ==
    /\ corpus_exists = TRUE
    /\ files = ReadableFiles(ExampleCorpus)
    /\ index_file = ObjectFile(ExampleIndex)
    /\ IdleEngine
    /\ IdleIndexer
    /\ threads = [c \in Callers |-> IdleThread]
    /\ call = NoCall

unchanged_indexer ==
    UNCHANGED <<corpus_exists, files, tf_matrix, tfidf_matrix, ix_doc_norms, total_docs,
                build, index_file, call>>

\* SearchEngine.load_index, called while no search is in flight
LoadIndex ==
    /\ \A c \in Callers : threads[c].pc = "idle"
    /\ CASE index_file.kind = "missing" ->
              /\ load_result' = "FileNotFoundError"
              /\ UNCHANGED <<index, meta, terms, doc_norms, helpers>>
         [] index_file.kind = "malformed" ->
              /\ load_result' = "JSONDecodeError"
              /\ UNCHANGED <<index, meta, terms, doc_norms, helpers>>
         [] index_file.kind = "array" ->
              /\ index' = ListIndex(index_file.items)
              /\ load_result' = "AttributeError"
              /\ UNCHANGED <<meta, terms, doc_norms, helpers>>
         [] index_file.kind = "object" ->
              /\ index' = DictIndex(index_file.sections)
              /\ meta' = Get(index_file.sections, "meta")
              /\ terms' = Get(index_file.sections, "terms")
              /\ doc_norms' = Get(index_file.sections, "doc_norms")
              /\ helpers' = TRUE
              /\ load_result' = "ok"
    /\ UNCHANGED <<phrase_occurrences, threads>>
    /\ unchanged_indexer

SearchBegin(c, query, operator) ==
    /\ threads[c].pc = "idle"
    /\ threads' = [threads EXCEPT ![c] = BeginStep(index, query, operator)]
    /\ UNCHANGED <<index, meta, terms, doc_norms, helpers, phrase_occurrences, load_result>>
    /\ unchanged_indexer

SearchFilter(c) ==
    /\ threads[c].pc = "filter"
    /\ LET f == FilterStep(threads[c], terms, helpers, phrase_occurrences)
       IN  /\ threads' = [threads EXCEPT ![c] = f.thread]
           /\ phrase_occurrences' = f.phrase_occurrences
    /\ UNCHANGED <<index, meta, terms, doc_norms, helpers, load_result>>
    /\ unchanged_indexer

SearchRank(c) ==
    /\ threads[c].pc = "rank"
    /\ \E order \in IterationOrders(Range(threads[c].all_query_terms)) :
          threads' = [threads EXCEPT ![c] =
                         RankStep(threads[c], terms, doc_norms, files,
                                  phrase_occurrences, order)]
    /\ UNCHANGED <<index, meta, terms, doc_norms, helpers, phrase_occurrences, load_result>>
    /\ unchanged_indexer

\* the caller takes the outcome of its call
SearchReturn(c) ==
    /\ threads[c].pc = "done"
    /\ threads' = [threads EXCEPT ![c] = IdleThread]
    /\ UNCHANGED <<index, meta, terms, doc_norms, helpers, phrase_occurrences, load_result>>
    /\ unchanged_indexer

Next ==
    \/ LoadIndex
    \/ \E c \in Callers, query \in SeqsUpTo(QueryWords, MaxQueryLen), operator \in Operators :
          SearchBegin(c, query, operator)
    \/ \E c \in Callers : SearchFilter(c)
    \/ \E c \in Callers : SearchRank(c)
    \/ \E c \in Callers : SearchReturn(c)

Spec == Init /\ [][Next]_vars

-----------------------------------------------------------------------------
(* Specification SpecLoad: load_index on whatever stands at index_path,    *)
(* followed by the searches of one caller.                                 *)

Caller == "a"

InitLoad ==
    /\ corpus_exists = TRUE
    /\ files = ReadableFiles(ExampleCorpus)
    /\ index_file \in IndexFiles
    /\ IdleEngine
    /\ IdleIndexer
    /\ threads = [c \in Callers |-> IdleThread]
    /\ call = NoCall

NextLoad ==
    \/ LoadIndex
    \/ \E query \in SeqsUpTo(QueryWords, MaxQueryLen), operator \in Operators :
          SearchBegin(Caller, query, operator)
    \/ SearchFilter(Caller)
    \/ SearchRank(Caller)
    \/ SearchReturn(Caller)

SpecLoad == InitLoad /\ [][NextLoad]_vars

-----------------------------------------------------------------------------
(* Properties of the query engine *)

\* the documents of a returned result list
ResultDocs(outcome) == {outcome.results[i].doc : i \in DOMAIN outcome.results}

\* C2: on a loaded index every finished search call has returned a list of
\* results, whatever the query and the operator; no call ends in an error.
C2_SearchReturnsRankedList ==
    \A c \in Callers :
        (load_result = "ok" /\ threads[c].pc = "done") => threads[c].outcome.kind = "list"

\* C6: load_index never completes successfully on a persisted object that
\* misses one of the sections meta, terms, doc_norms.
C6_LoadRejectsMissingSections ==
    (index_file.kind = "object" /\ ~(SectionNames \subseteq DOMAIN index_file.sections))
        => load_result # "ok"

\* C9: on the index of the two example documents a finished PHRASE search for
\* "cat sat" has returned doc1 alone, and one for "sat on" has returned doc1
\* and doc2.
C9_PhraseExampleMatches ==
    \A c \in Callers :
        (load_result = "ok" /\ threads[c].pc = "done" /\ threads[c].operator = "PHRASE") =>
            /\ threads[c].query = <<"cat", "sat">> =>
                  (threads[c].outcome.kind = "list" /\ ResultDocs(threads[c].outcome) = {1})
            /\ threads[c].query = <<"sat", "on">> =>
                  (threads[c].outcome.kind = "list" /\ ResultDocs(threads[c].outcome) = {1, 2})

\* C10: on a loaded engine, in every interleaving of the callers' searches,
\* index, meta, terms and doc_norms stay what load_index read from the file,
\* and the outcome of every finished call is the outcome of the same call run
\* alone.
C10_ConcurrentSearchesIndependent ==
    load_result = "ok" =>
        /\ index = DictIndex(index_file.sections)
        /\ meta = Get(index_file.sections, "meta")
        /\ terms = Get(index_file.sections, "terms")
        /\ doc_norms = Get(index_file.sections, "doc_norms")
        /\ \A c \in Callers :
              threads[c].pc = "done" =>
                  threads[c].outcome
                    = SearchAlone(threads[c].query, threads[c].operator, threads[c].order)

\* caller a is between its phrase filter and its ranking while caller b, whose
\* phrase filter ran after a's and replaced phrase_occurrences, has finished
C10_Witness ==
    /\ load_result = "ok"
    /\ threads["a"].pc = "rank" /\ threads["b"].pc = "done"
    /\ threads["a"].operator = "PHRASE" /\ Len(threads["a"].all_query_terms) > 1
    /\ threads["a"].candidate_docs # {}
    /\ threads["b"].operator = "PHRASE" /\ threads["b"].outcome.kind = "list"
    /\ phrase_occurrences.set
    /\ DOMAIN phrase_occurrences.map # threads["a"].candidate_docs

-----------------------------------------------------------------------------
(* Specification SpecSnippet: get_positions for a document the query       *)
(* matches, on an engine loaded from the index of the example corpus, the  *)
(* corpus files having been removed or made unreadable since or not.       *)

InitSnippet ==
    /\ corpus_exists = TRUE
    /\ \E kinds \in [DOMAIN ExampleCorpus -> {"file", "missing", "unreadable"}] :
          files = [d \in DOMAIN ExampleCorpus |->
                      [kind |-> kinds[d], words |-> ExampleCorpus[d]]]
    /\ index_file = ObjectFile(ExampleIndex)
    /\ LoadedEngine(ExampleIndex)
    /\ IdleIndexer
    /\ threads = [c \in Callers |-> IdleThread]
    /\ call = NoCall

\* the candidate documents search computes for the query (lines 146-169)
CandidatesOf(query, operator) ==
    LET b == BeginStep(index, query, operator)
    IN  IF b.pc = "done" THEN {}
        ELSE FilterStep(b, terms, helpers, phrase_occurrences).thread.candidate_docs

\* the call search makes at line 190 for a result doc_id
CallGetPositions(doc_id, query, operator) ==
    /\ call = NoCall
    /\ doc_id \in CandidatesOf(query, operator)
    /\ call' = [fn |-> "get_positions", doc |-> doc_id, query |-> query,
                operator |-> operator,
                res |-> get_positions(files, terms, doc_id, preprocess_query(query),
                                      SplitQuery(query), operator)]
    /\ unchanged_but_call

NextSnippet ==
    \/ \E d \in DOMAIN ExampleCorpus, query \in SeqsUpTo(QueryWords, MaxQueryLen),
          operator \in Operators : CallGetPositions(d, query, operator)
    \/ Return

SpecSnippet == InitSnippet /\ [][NextSnippet]_vars

\* C5: get_positions for a result whose source document is missing or
\* unreadable returns a list with no fragment for it; it does not raise.
C5_UnreadableSnippetOmitted ==
    call.fn = "get_positions" =>
        /\ call.res.kind = "list"
        /\ files[call.doc].kind # "file" => call.res.snippets = <<>>

-----------------------------------------------------------------------------
(* Specification SpecBuild: build_index and save_json of one               *)
(* DocumentIndexer over a corpus directory that holds readable files,      *)
(* unreadable files and subdirectories.                                    *)

MaxBuilds == 2          \* build_index calls on the indexer

BuildDocs == {1, 2}
BuildTexts == {<<"cat">>, <<"cat", "sat">>, <<"The", "cats", "sat", "cat.">>}

DirectoryEntries ==
    {[kind |-> "file", words |-> ws] : ws \in BuildTexts}
      \cup {[kind |-> "unreadable", words |-> <<>>], [kind |-> "dir", words |-> <<>>]}

InitBuild ==
    /\ corpus_exists \in BOOLEAN
    /\ files \in UNION {[S -> DirectoryEntries] : S \in SUBSET BuildDocs}
    /\ corpus_exists = FALSE => files = <<>>
    /\ index_file = [kind |-> "missing"]
    /\ IdleEngine
    /\ IdleIndexer
    /\ threads = [c \in Callers |-> IdleThread]
    /\ call = NoCall

unchanged_engine ==
    UNCHANGED <<index, meta, terms, doc_norms, helpers, phrase_occurrences, load_result,
                threads, call>>

BuildFailed(error) == [status |-> "error", error |-> error, builds |-> build.builds + 1]

\* DocumentIndexer.build_index, os.listdir returning the entries in any order
BuildIndex ==
    /\ build.builds < MaxBuilds
    /\ IF ~corpus_exists
       THEN /\ build' = BuildFailed("FileNotFoundError")
            /\ UNCHANGED <<tf_matrix, tfidf_matrix, ix_doc_norms, total_docs>>
       ELSE \E listing \in IterationOrders(DOMAIN files) :
              LET scan == ScanCorpus(files, listing,
                              [tf_matrix |-> tf_matrix, index |-> 0, error |-> "none"])
                  r == compute_tfidf(scan.tf_matrix, scan.index, tfidf_matrix, ix_doc_norms)
              IN  /\ tf_matrix' = scan.tf_matrix
                  /\ IF scan.error # "none"
                     THEN /\ build' = BuildFailed(scan.error)
                          /\ UNCHANGED <<tfidf_matrix, ix_doc_norms, total_docs>>
                     ELSE /\ total_docs' = scan.index
                          /\ IF IdfFails(scan.tf_matrix, scan.index)
                             THEN /\ build' = BuildFailed("ValueError")
                                  /\ UNCHANGED <<tfidf_matrix, ix_doc_norms>>
                             ELSE /\ tfidf_matrix' = r.tfidf_matrix
                                  /\ ix_doc_norms' = r.doc_norms
                                  /\ build' = [status |-> "done", error |-> "none",
                                               builds |-> build.builds + 1]
    /\ UNCHANGED <<corpus_exists, files, index_file>>
    /\ unchanged_engine

\* json.dump of the payload: the JSON object of its sections, the members
\* of "terms" written in the order of their insertion
SavedFile(matrix, norms, total) ==
    [kind |-> "object", sections |-> to_serializable(matrix, norms, total),
     term_keys |-> SortedKeys(DOMAIN matrix)]

\* DocumentIndexer.save_json, called by main once build_index has returned
SaveJson ==
    /\ build.status = "done"
    /\ index_file' = SavedFile(tfidf_matrix, ix_doc_norms, total_docs)
    /\ UNCHANGED <<corpus_exists, files, tf_matrix, tfidf_matrix, ix_doc_norms, total_docs,
                   build>>
    /\ unchanged_engine

NextBuild == BuildIndex \/ SaveJson

SpecBuild == InitBuild /\ [][NextBuild]_vars

\* the documents that have a posting in the tf matrix
PostedDocs(tfm) == UNION {{tfm[t][i].doc : i \in DOMAIN tfm[t]} : t \in DOMAIN tfm}

ReadableDocs == {d \in DOMAIN files : files[d].kind = "file"}

\* C4: after build_index on a corpus directory that holds an unreadable
\* document the build is complete: the unreadable document is not counted in
\* total_docs and has no posting, every readable document has its postings
\* and the tfidf matrix covers every term.
C4_UnreadableDocumentSkipped ==
    (corpus_exists /\ build.builds = 1 /\ \E d \in DOMAIN files : files[d].kind = "unreadable")
        => /\ build.status = "done"
           /\ total_docs = Cardinality(ReadableDocs)
           /\ PostedDocs(tf_matrix) = ReadableDocs
           /\ DOMAIN tfidf_matrix = DOMAIN tf_matrix

\* the index content the indexer holds or has saved reflects the whole scan:
\* every term of the tf matrix has its idf and weights, every posted document
\* its norm, and the saved file covers the same terms and documents
FullIndex ==
    /\ DOMAIN tfidf_matrix = DOMAIN tf_matrix
    /\ \A t \in DOMAIN tf_matrix : Len(tfidf_matrix[t][2]) = Len(tf_matrix[t])
    /\ DOMAIN ix_doc_norms = PostedDocs(tf_matrix)
    /\ PostedDocs(tf_matrix) = ReadableDocs
    /\ index_file.kind = "object"
          => /\ DOMAIN index_file.sections.terms = DOMAIN tf_matrix
             /\ DOMAIN index_file.sections.doc_norms = ReadableDocs

\* C11: the builder never exposes a partially aggregated index: whenever
\* index content (tfidf_matrix, doc_norms or the saved file) is observable it
\* reflects the full corpus scan, and after a failed build nothing is
\* published and no postings stay visible on the indexer.
C11_NoPartialIndexExposed ==
    /\ (tfidf_matrix # <<>> \/ ix_doc_norms # <<>> \/ index_file.kind = "object")
          => build.status = "done" /\ FullIndex
    /\ build.status = "error"
          => /\ index_file.kind = "missing"
             /\ tf_matrix = <<>> /\ tfidf_matrix = <<>> /\ ix_doc_norms = <<>>

\* the readable documents of the corpus whose text holds the term
DocsWithTerm(t) == {d \in ReadableDocs : t \in DOMAIN compute_tf(TextOf(files[d].words))}

\* C13: after build_index each term's document frequency equals the number
\* of its postings, lies between 1 and total_docs, and the term's idf is
\* positive when df < total_docs and zero when df = total_docs, never
\* negative.
C13_IdfSignFollowsDf ==
    build.status = "done" =>
        \A t \in DOMAIN tfidf_matrix :
            LET df == Cardinality(DocsWithTerm(t))
            IN  /\ df = Len(tfidf_matrix[t][2])
                /\ df = Len(tf_matrix[t])
                /\ df >= 1 /\ df <= total_docs
                /\ df < total_docs => tfidf_matrix[t][1] > 0
                /\ df = total_docs => tfidf_matrix[t][1] = 0
                /\ tfidf_matrix[t][1] >= 0

-----------------------------------------------------------------------------
(* Specification SpecTf: compute_tf and process_single_document applied to *)
(* one document of a fresh indexer, the text being any sequence of up to   *)
(* MaxDocLen raw words.                                                    *)

TfWords == {"The", "cat", "cat's", "cats", "sat"}
TfDoc == 1

InitTf ==
    /\ corpus_exists = TRUE
    /\ \E ws \in SeqsUpTo(TfWords, MaxDocLen) :
          files = ReadableFiles([d \in {TfDoc} |-> ws])
    /\ index_file = [kind |-> "missing"]
    /\ IdleEngine
    /\ IdleIndexer
    /\ threads = [c \in Callers |-> IdleThread]
    /\ call = NoCall

CallComputeTf ==
    /\ call = NoCall
    /\ call' = [fn |-> "compute_tf", text |-> TextOf(files[TfDoc].words),
                res |-> compute_tf(TextOf(files[TfDoc].words))]
    /\ unchanged_but_call

\* process_single_document on the file of the document, once per indexer
ProcessSingleDocument ==
    /\ tf_matrix = <<>>
    /\ tf_matrix' = process_single_document(tf_matrix, TfDoc, TextOf(files[TfDoc].words))
    /\ UNCHANGED <<corpus_exists, files, tfidf_matrix, ix_doc_norms, total_docs, build,
                   index_file>>
    /\ unchanged_engine

NextTf == CallComputeTf \/ ProcessSingleDocument \/ Return

SpecTf == InitTf /\ [][NextTf]_vars

\* the positions are strictly increasing non-negative offsets of the lowered
\* text at each of which the characters of the term begin
OffsetsOfTerm(text, term, positions) ==
    /\ \A i, j \in DOMAIN positions : i < j => positions[i] < positions[j]
    /\ \A i \in DOMAIN positions :
          /\ positions[i] >= 0
          /\ Find(Lower(text), Chars(term), positions[i]) = positions[i]

\* C12: every posting's positions list, as compute_tf returns it and as
\* process_single_document stores it, is a strictly increasing sequence of
\* unique non-negative integers, each a character offset of the original
\* text at which an occurrence of the term begins.
C12_PositionsAreOffsets ==
    /\ call.fn = "compute_tf" =>
          \A t \in DOMAIN call.res : OffsetsOfTerm(call.text, t, call.res[t].positions)
    /\ \A t \in DOMAIN tf_matrix : \A i \in DOMAIN tf_matrix[t] :
          OffsetsOfTerm(TextOf(files[TfDoc].words), t, tf_matrix[t][i].positions)

-----------------------------------------------------------------------------
(* Specification SpecRank: compute_query_norm and rank_documents on an     *)
(* engine loaded from the index built from a two-document corpus, the      *)
(* directory listing and the iteration of the query-term set taking any    *)
(* order.                                                                  *)

MaxRankDocLen == 2      \* words of a document (ranking specification)

RankWords == {"cat", "sat", "dog"}
RankTerms == {"cat", "sat"}
RankDocs == {1, 2}

InitRank ==
    /\ corpus_exists = TRUE
    /\ \E contents \in [RankDocs -> SeqsUpTo(RankWords, MaxRankDocLen)],
          listing \in IterationOrders(RankDocs) :
          /\ files = ReadableFiles(contents)
          /\ index_file = ObjectFile(BuiltIndex(listing, contents))
    /\ LoadedEngine(index_file.sections)
    /\ IdleIndexer
    /\ threads = [c \in Callers |-> IdleThread]
    /\ call = NoCall

CallComputeQueryNorm(query_terms) ==
    /\ call = NoCall
    /\ call' = [fn |-> "compute_query_norm", query_terms |-> query_terms,
                res |-> compute_query_norm(query_terms, terms)]
    /\ unchanged_but_call

\* lines 176-179 of search as documented: the norm of the query, then the
\* ranking of the candidates
CallRankDocuments(query_terms, candidate_docs, order) ==
    /\ call = NoCall
    /\ call' = [fn |-> "rank_documents", query_terms |-> query_terms,
                candidate_docs |-> candidate_docs, order |-> order,
                query_norm |-> compute_query_norm(query_terms, terms),
                res |-> rank_documents(terms, doc_norms, order,
                                       compute_query_norm(query_terms, terms),
                                       candidate_docs)]
    /\ unchanged_but_call

NextRank ==
    \/ \E q \in SeqsUpTo(RankTerms, MaxQueryLen) : CallComputeQueryNorm(q)
    \/ \E q \in SeqsUpTo(RankTerms, MaxQueryLen), c \in SUBSET RankDocs :
          \E order \in IterationOrders(Range(q)) : CallRankDocuments(q, c, order)
    \/ Return

SpecRank == InitRank /\ [][NextRank]_vars

ScoreEqual(s1, s2) == ~ScoreLess(s1, s2) /\ ~ScoreLess(s2, s1)

\* C3: the list rank_documents returns is in descending score order with
\* equal scores in ascending doc_id order, whatever the iteration order of
\* the query-term set and the order of the postings.
C3_TiesByAscendingDocId ==
    call.fn = "rank_documents" =>
        \A i, j \in DOMAIN call.res :
            i < j =>
                /\ ~ScoreLess(call.res[i].score, call.res[j].score)
                /\ ScoreEqual(call.res[i].score, call.res[j].score)
                      => call.res[i].doc < call.res[j].doc

-----------------------------------------------------------------------------
(* Specification SpecPipeline: one DocumentIndexer builds and saves the    *)
(* index of the corpus directory, one SearchEngine loads the saved file    *)
(* and its ranker is called with the query norm of the query terms.        *)

\* rank_documents of the ranker load_index created
CallRanker(query_terms, candidate_docs, order) ==
    /\ helpers
    /\ CallRankDocuments(query_terms, candidate_docs, order)

\* the pipeline is one thread: load_index runs between the calls of the
\* ranker, never during one
NextPipeline ==
    \/ BuildIndex
    \/ SaveJson
    \/ (call = NoCall /\ LoadIndex)
    \/ \E q \in SeqsUpTo(RankTerms, MaxQueryLen), c \in SUBSET BuildDocs :
          \E order \in IterationOrders(Range(q)) : CallRanker(q, c, order)
    \/ Return

SpecPipeline == InitBuild /\ [][NextPipeline]_vars

\* C14: every score rank_documents returns lies in [0, 1], the index being
\* one built by build_index and the query norm the one compute_query_norm
\* gives for the query terms (score = num / sqrt(den2)).
C14_ScoresInUnitInterval ==
    call.fn = "rank_documents" =>
        \A i \in DOMAIN call.res :
            /\ call.res[i].score.num >= 0
            /\ call.res[i].score.num * call.res[i].score.num <= call.res[i].score.den2

\* the engine holds the content of the file save_json wrote from the
\* matrix, norms and document count the indexer holds now
RoundTripDone ==
    /\ load_result = "ok"
    /\ index_file = SavedFile(tfidf_matrix, ix_doc_norms, total_docs)
    /\ index = DictIndex(index_file.sections)

-----------------------------------------------------------------------------
(* Specification SpecFilter: filter_and, filter_or and filter_documents of *)
(* the DocumentFilter of an engine loaded from the index of a two-document *)
(* corpus, called with every list of up to MaxQueryLen terms.              *)

\* query terms: "rug" is in no document, "cat" and "sat" in some corpora
FilterTerms == {"cat", "sat", "rug"}

CallFilterAnd(term_list) ==
    /\ call = NoCall
    /\ call' = [fn |-> "filter_and", term_list |-> term_list,
                res |-> filter_and(terms, term_list)]
    /\ unchanged_but_call

CallFilterOr(term_list) ==
    /\ call = NoCall
    /\ call' = [fn |-> "filter_or", term_list |-> term_list,
                res |-> filter_or(terms, term_list)]
    /\ unchanged_but_call

CallFilterDocuments(term_list, operator) ==
    /\ call = NoCall
    /\ call' = [fn |-> "filter_documents", term_list |-> term_list, operator |-> operator,
                res |-> filter_documents(terms, term_list, operator)]
    /\ unchanged_but_call

NextFilter ==
    \/ \E q \in SeqsUpTo(FilterTerms, MaxQueryLen) : CallFilterAnd(q)
    \/ \E q \in SeqsUpTo(FilterTerms, MaxQueryLen) : CallFilterOr(q)
    \/ \E q \in SeqsUpTo(FilterTerms, MaxQueryLen), operator \in Operators :
          CallFilterDocuments(q, operator)
    \/ Return

SpecFilter == InitRank /\ [][NextFilter]_vars

\* the documents with a posting of the term
DocsOf(t) == filter_or(terms, <<t>>)

\* C16: for all terms a and b, in the index or not, equal or distinct,
\* filter_and([a, b]) is the intersection of filter_or([a]) and filter_or([b]).
C16_AndIsIntersectionOfOrs ==
    (call.fn = "filter_and" /\ Len(call.term_list) = 2) =>
        call.res = DocsOf(call.term_list[1]) \cap DocsOf(call.term_list[2])

\* C16 witness: filter_and of two distinct terms of the index, its result
\* not empty and smaller than the union of the documents of the two terms
C16_Witness ==
    /\ call.fn = "filter_and" /\ Len(call.term_list) = 2
    /\ call.term_list[1] # call.term_list[2]
    /\ call.res # {}
    /\ call.res # DocsOf(call.term_list[1]) \cup DocsOf(call.term_list[2])

\* C17: for every term list T, duplicates and absent terms included,
\* filter_or(T) is the union over the t of T of filter_or([t]); it is empty
\* for the empty list.
C17_OrIsUnionOfSingles ==
    call.fn = "filter_or" =>
        /\ call.res = UNION {DocsOf(call.term_list[i]) : i \in DOMAIN call.term_list}
        /\ call.term_list = <<>> => call.res = {}

\* C17 witness: filter_or of two terms whose documents differ, the result
\* larger than the documents of either term
C17_Witness ==
    /\ call.fn = "filter_or" /\ Len(call.term_list) = 2
    /\ call.res # DocsOf(call.term_list[1])
    /\ call.res # DocsOf(call.term_list[2])

\* C18: filter_and returns the empty set whenever the list is empty or some
\* term of it, at any position, is absent from the index.
C18_AndOfAbsentTermIsEmpty ==
    (/\ call.fn = "filter_and"
     /\ \/ call.term_list = <<>>
        \/ \E i \in DOMAIN call.term_list : call.term_list[i] \notin DOMAIN terms)
        => call.res = {}

\* C18 witness: filter_and of a list whose first term has documents and whose
\* last term is absent from the index
C18_Witness ==
    /\ call.fn = "filter_and" /\ Len(call.term_list) >= 2
    /\ DocsOf(call.term_list[1]) # {}
    /\ call.term_list[Len(call.term_list)] \notin DOMAIN terms
    /\ call.res = {}

-----------------------------------------------------------------------------
(* Operators of the query: properties of the filtering stage of search     *)

\* the candidate set lines 163-169 of search leave for the query terms and
\* the operator on the loaded engine
SearchCandidates(query_terms, operator) ==
    FilterStep([pc |-> "filter", query |-> query_terms, operator |-> operator,
                all_query_terms |-> query_terms, candidate_docs |-> {}, order |-> <<>>,
                outcome |-> [kind |-> "none"]],
               terms, helpers, phrase_occurrences).thread.candidate_docs

\* C19: every operator other than "AND" is treated as OR by filter_documents
\* (for "PHRASE" the phrase filter then works on the OR candidates), and a
\* search with an unrecognised operator ends as the same search with "OR".
C19_UnknownOperatorIsOr ==
    LET th == threads[Caller]
        or_docs == filter_or(terms, th.all_query_terms)
    IN  /\ (th.pc = "rank" /\ th.operator # "AND") =>
              th.candidate_docs
                = IF th.operator = "PHRASE" /\ Len(th.all_query_terms) > 1
                  THEN filter_docs_by_phrase(terms, th.all_query_terms, or_docs).docs
                  ELSE or_docs
        /\ (th.pc = "done" /\ th.operator \notin {"AND", "OR", "PHRASE"}) =>
              th.outcome = SearchAlone(th.query, "OR", th.order)

\* C19 witness: a finished search with the operator "NEAR" whose two terms
\* have different documents, so that OR and AND candidates differ
C19_Witness ==
    /\ load_result = "ok"
    /\ threads[Caller].pc = "done" /\ threads[Caller].operator = "NEAR"
    /\ Len(threads[Caller].all_query_terms) = 2
    /\ threads[Caller].candidate_docs = {1, 2}
    /\ filter_and(terms, threads[Caller].all_query_terms) = {1}

\* C20: for a phrase of at most one term filter_docs_by_phrase returns the
\* candidate set unchanged with an empty occurrence map, and the candidate
\* set of a single-term PHRASE query is that of the OR query and of the AND
\* query on that term.
C20_DegeneratePhrase ==
    (call.fn = "filter_docs_by_phrase" /\ Len(call.query_terms) <= 1) =>
        /\ call.res.docs = call.candidate_docs
        /\ call.res.occurrences_map = <<>>
        /\ Len(call.query_terms) = 1 =>
              /\ SearchCandidates(call.query_terms, "PHRASE")
                    = SearchCandidates(call.query_terms, "OR")
              /\ SearchCandidates(call.query_terms, "PHRASE")
                    = SearchCandidates(call.query_terms, "AND")

\* C20 witness: filter_docs_by_phrase called with a one-term phrase that
\* occurs in the document, the candidate set being that document
C20_Witness ==
    /\ call.fn = "filter_docs_by_phrase" /\ Len(call.query_terms) = 1
    /\ call.candidate_docs = {PhraseDoc}
    /\ SearchCandidates(call.query_terms, "PHRASE") = {PhraseDoc}
    /\ call.res.docs = {PhraseDoc}

-----------------------------------------------------------------------------
(* Error handling of search: properties over SpecLoad                      *)

\* no term of the query is a term of the loaded index
NoQueryTermInIndex(query) ==
    \A i \in DOMAIN preprocess_query(query) : preprocess_query(query)[i] \notin DOMAIN terms

\* C21: if no query term exists in the loaded index the query norm is 0 and
\* the finished search has returned the empty list; and the ranking of the
\* candidates of a search never divides by a zero query norm or document
\* norm (no score has the denominator 0).
C21_NoTermNoDivision ==
    LET th == threads[Caller]
    IN  /\ (load_result = "ok" /\ th.pc = "done" /\ NoQueryTermInIndex(th.query)) =>
              /\ compute_query_norm(preprocess_query(th.query), terms) = 0
              /\ th.outcome = Returned(<<>>)
        /\ th.pc = "rank" =>
              \A order \in IterationOrders(Range(th.all_query_terms)) :
                  LET ranked == rank_documents(terms, doc_norms, order,
                                    compute_query_norm(th.all_query_terms, terms),
                                    th.candidate_docs)
                  IN  \A i \in DOMAIN ranked : ranked[i].score.den2 # 0

\* C22: a search whose query leaves no term after normalization has returned
\* the empty list, not an error, whatever the operator (on an engine whose
\* load_index succeeded).
C22_EmptyQueryReturnsEmptyList ==
    LET th == threads[Caller]
    IN  (load_result = "ok" /\ th.pc = "done" /\ preprocess_query(th.query) = <<>>)
            => th.outcome = Returned(<<>>)

\* C23: a search on an engine without a successful load_index ends in an
\* error and never returns a list, while on a loaded engine a search whose
\* query matches no document returns the empty list and never raises.
C23_NotLoadedDistinctFromNoMatch ==
    LET th == threads[Caller]
    IN  /\ (load_result # "ok" /\ th.pc = "done") => th.outcome.kind = "error"
        /\ (/\ load_result = "ok" /\ th.pc = "done"
            /\ SearchCandidates(preprocess_query(th.query), th.operator) = {})
               => th.outcome = Returned(<<>>)

\* C28: once load_index has returned True no search ends in the "Index not
\* loaded" error, whatever the loaded JSON document holds.
C28_LoadedIndexStaysLoaded ==
    (load_result = "ok" /\ threads[Caller].pc = "done")
        => threads[Caller].outcome # Raised("RuntimeError")

\* the ranked list of the candidates of a thread, for an iteration order of
\* the set of its query terms
RankedOf(th, order) ==
    rank_documents(terms, doc_norms, order, compute_query_norm(th.all_query_terms, terms),
                   th.candidate_docs)

\* the documents and scores of a result list, without the snippets
DocScores(results) == [i \in DOMAIN results |-> [doc |-> results[i].doc, score |-> results[i].score]]

\* C24: search returns at most max_results results, and when the ranking of
\* its candidates is not empty it returns the first max_results entries of
\* the ranked list, in the order of that list.
C24_TopResultsReturned ==
    LET th == threads[Caller]
    IN  (load_result = "ok" /\ th.pc = "done") =>
            /\ th.outcome.kind = "list" => Len(th.outcome.results) <= MAX_RESULTS
            /\ (\E order \in IterationOrders(Range(th.all_query_terms)) :
                    RankedOf(th, order) # <<>>)
                  => /\ th.outcome.kind = "list"
                     /\ \E order \in IterationOrders(Range(th.all_query_terms)) :
                          DocScores(th.outcome.results)
                            = SubSeq(RankedOf(th, order), 1,
                                     Min({MAX_RESULTS, Len(RankedOf(th, order))}))

-----------------------------------------------------------------------------
(* Ranking: properties over SpecPipeline                                   *)

\* the documents of the postings of the term in the loaded index
PostingDocs(t) ==
    IF t \in DOMAIN terms
    THEN {terms[t].weights[k].doc : k \in DOMAIN terms[t].weights}
    ELSE {}

\* the numerator of a document: over the distinct query terms of the index,
\* idf times the tfidf of each posting of the document
NumeratorOf(query_terms, d) ==
    LET present == Range(query_terms) \cap DOMAIN terms
        part == [t \in present |->
                    LET ks == {k \in DOMAIN terms[t].weights : terms[t].weights[k].doc = d}
                    IN  terms[t].idf
                          * SumOver(ks, [k \in ks |-> terms[t].weights[k].tfidf])]
    IN  SumOver(present, part)

\* C26: rank_documents returns only documents of candidate_docs that have a
\* posting of some query term of the index and a non-zero doc norm, each at
\* most once, and a query term given several times counts once in the
\* numerator.
C26_RankedAreScoredCandidates ==
    call.fn = "rank_documents" =>
        /\ \A i \in DOMAIN call.res :
              /\ call.res[i].doc \in call.candidate_docs
              /\ \E j \in DOMAIN call.query_terms :
                    call.res[i].doc \in PostingDocs(call.query_terms[j])
              /\ call.res[i].doc \in DOMAIN doc_norms
              /\ doc_norms[call.res[i].doc] # 0
              /\ call.res[i].score.num = NumeratorOf(call.query_terms, call.res[i].doc)
        /\ \A i, j \in DOMAIN call.res : i # j => call.res[i].doc # call.res[j].doc

\* C26 witness: a ranking for a query that names one term twice, returning a
\* document while another document with a posting of that term is not among
\* the candidates
C26_Witness ==
    /\ call.fn = "rank_documents"
    /\ Len(call.query_terms) = 2 /\ call.query_terms[1] = call.query_terms[2]
    /\ call.res # <<>>
    /\ PostingDocs(call.query_terms[1]) \ call.candidate_docs # {}

-----------------------------------------------------------------------------
(* Repeated builds: a property over SpecBuild                              *)

\* C27: after any sequence of build_index calls on one DocumentIndexer every
\* term has exactly one posting per document that contains it, so no term
\* has more postings than total_docs, and the index is the one a single
\* build of the corpus produces.
C27_RebuildKeepsOnePostingPerDocument ==
    build.status = "done" =>
        /\ \A t \in DOMAIN tfidf_matrix :
              /\ \A i, j \in DOMAIN tfidf_matrix[t][2] :
                    i # j => tfidf_matrix[t][2][i].doc # tfidf_matrix[t][2][j].doc
              /\ {tfidf_matrix[t][2][i].doc : i \in DOMAIN tfidf_matrix[t][2]} = DocsWithTerm(t)
              /\ Len(tfidf_matrix[t][2]) <= total_docs
        /\ \E listing \in IterationOrders(DOMAIN files) :
              to_serializable(tfidf_matrix, ix_doc_norms, total_docs)
                = IndexOfScan(ScanCorpus(files, listing,
                                  [tf_matrix |-> <<>>, index |-> 0, error |-> "none"]))

-----------------------------------------------------------------------------
(* The raw word of a snippet: a property over SpecSnippet                  *)

\* the indices of the query terms that have a posting in the document, in
\* the order get_positions visits them
FoundTerms(doc_id, query_terms) ==
    SortedSeq({i \in DOMAIN query_terms :
                  is_document_matching(terms, doc_id, query_terms[i]).is_found})

\* C30: for the AND/OR snippets get_positions pairs the i-th normalized
\* query term with the raw word of the query it was derived from: i is an
\* index of query.split() and original_query[i] normalizes to query_terms[i],
\* also when the normalization drops stopwords or short words.
C30_SnippetNamesRawWordOfTerm ==
    (/\ call.fn = "get_positions"
     /\ ~(call.operator = "PHRASE" /\ Len(preprocess_query(call.query)) > 1))
        => LET query_terms == preprocess_query(call.query)
               original_query == SplitQuery(call.query)
               found == FoundTerms(call.doc, query_terms)
           IN  /\ \A i \in DOMAIN query_terms :
                     /\ i \in DOMAIN original_query
                     /\ preprocess_query(<<original_query[i]>>) = <<query_terms[i]>>
               /\ call.res.kind = "list" =>
                     /\ Len(call.res.snippets) = Len(found)
                     /\ \A k \in DOMAIN call.res.snippets :
                           preprocess_query(call.res.snippets[k].searched_term)
                              = <<query_terms[found[k]]>>

-----------------------------------------------------------------------------
(* Termination of next_phrase: a property over SpecPhrase                  *)

\* the positions of the first term of the phrase at or after the offset
FirstTermPositionsFrom(query_terms, v) ==
    {p \in PositionsOf(terms, query_terms[1], PhraseDoc) : p >= v}

\* C25: next_phrase terminates: when a term has no position at or after the
\* cursor the call stops at once with 'not found'; otherwise a retry starts
\* at u + 1 with u, the position found for the first term, at or after the
\* start offset of the call, so that every retry leaves one more position of
\* the first term behind and the number of invocations is bounded by the
\* number of those positions.
C25_NextPhraseTerminates ==
    (call.fn = "next_phrase" /\ call.query_terms # <<>>) =>
        LET fp == ForwardPass(terms, call.query_terms, call.doc, 1, call.start_v, <<>>)
        IN  /\ fp = None => call.run = [res |-> None, calls |-> 1]
            /\ (fp # None /\ ~BackwardValid(terms, call.query_terms, call.doc, fp)) =>
                  /\ fp[1] >= call.start_v
                  /\ call.run = NextPhraseRun(terms, call.query_terms, call.doc, fp[1] + 1, 1)
            /\ call.run.calls
                  <= 1 + Cardinality(FirstTermPositionsFrom(call.query_terms, call.start_v))
            /\ call.run.res # None => call.run.res[1] >= call.start_v

\* C25 witness: a call of next_phrase that retried, from an offset past the
\* start of the document
C25_Witness ==
    /\ call.fn = "next_phrase"
    /\ call.start_v > 0
    /\ call.run.calls >= 2

\* C25 witness of the stop: a call from an offset at which the first term
\* still has a position and a later term has none
C25_WitnessStop ==
    /\ call.fn = "next_phrase"
    /\ Len(call.query_terms) >= 2
    /\ FirstTermPositionsFrom(call.query_terms, call.start_v) # {}
    /\ call.run = [res |-> None, calls |-> 1]

-----------------------------------------------------------------------------
(* Completeness of the phrase filter: a property over SpecPhrase           *)

====
